---- MODULE Spec2Model ----
(***************************************************************************)
(* The data-fetch-and-cache orchestration of the React Query demo.         *)
(*                                                                         *)
(* The fetchers (fetchPosts, fetchUser), the posts query options, the      *)
(* Fetch button, the user selector and the cache-status display are        *)
(* translated from the components.  The cache coordination they rely on    *)
(* (CacheStore, InFlightRegistry, QueryCoordinator.request, the            *)
(* presentation adapter) is not part of the components: it is modelled     *)
(* from sections 3, 4 and 6 of the specification.                          *)
(***************************************************************************)
EXTENDS Integers, FiniteSets, Sequences, TLC

VARIABLES
    cache,        \* CacheStore: ResourceKey -> CacheEntry (partial map)
    inflight,     \* InFlightRegistry: ResourceKey -> handle (partial map)
    outstanding,  \* per key: RemoteDataSource.fetch calls not yet settled
    fetches,      \* RemoteDataSource.fetch calls issued so far
    lastOp,       \* the operation that produced the state, with its reply
    fu            \* one isolated fetchUser call: its response and result

vars == <<cache, inflight, outstanding, fetches, lastOp, fu>>

(***************************************************************************)
(* Bounds of the model.                                                    *)
(***************************************************************************)
NumCallers == 3
MaxFetches == 2

Callers == 1..NumCallers

(***************************************************************************)
(* Optional values.  Every value is a tagged record so that an absent      *)
(* value can be compared with a present one.                               *)
(***************************************************************************)
None == [tag |-> "none"]

(***************************************************************************)
(* Resource keys: the queryKey arrays of the demo, compared structurally.  *)
(***************************************************************************)
UserIds == {1, 2, 3}
PostsKey == <<"posts">>
UserKey(userId) == <<"user", userId>>
Keys == {PostsKey} \cup {UserKey(u) : u \in UserIds}

(***************************************************************************)
(* Timestamps.  An ISO-8601 string is [tag "iso", h, m]; the string that   *)
(* Date.toLocaleTimeString() produces is [tag "time", h12, m, pm]; any     *)
(* other string is [tag "text", s]; a missing field is [tag "missing"].    *)
(***************************************************************************)
IsoStamps == {[tag |-> "iso", h |-> h, m |-> 5] : h \in {0, 9, 12, 17}}
TimeStamps == {[tag |-> "time", h12 |-> 9, m |-> 5, pm |-> FALSE]}
TextStamps == {[tag |-> "text", s |-> s] : s \in {"", "not-a-date"}}
MissingStamp == [tag |-> "missing"]

\* JavaScript truthiness of data.fetchedAt: undefined and "" are falsy.
Truthy(stamp) ==
    /\ stamp # MissingStamp
    /\ stamp # [tag |-> "text", s |-> ""]

\* !isNaN(new Date(stamp).getTime()): only an ISO string parses; a bare
\* time string such as "9:05:00 AM" gives an Invalid Date.
IsValidDate(stamp) == stamp.tag = "iso"

\* date.toLocaleTimeString(): the 12-hour clock time of the instant.
ToLocaleTimeString(stamp) ==
    [tag |-> "time",
     h12 |-> IF stamp.h % 12 = 0 THEN 12 ELSE stamp.h % 12,
     m   |-> stamp.m,
     pm  |-> stamp.h >= 12]

(***************************************************************************)
(* HTTP responses and promise outcomes.                                    *)
(***************************************************************************)
MalformedBody == [tag |-> "malformed"]
JsonBody(value) == [tag |-> "json", value |-> value]
JsonNull == [tag |-> "null"]

Resolved(value) == [settled |-> "resolved", value |-> value, error |-> None]
Rejected(name, message) ==
    [settled |-> "rejected", value |-> None,
     error |-> [tag |-> "error", name |-> name, message |-> message]]

\* response.json(): rejects with a SyntaxError when the body is not JSON.
ResponseJson(body) ==
    IF body = MalformedBody
    THEN Rejected("SyntaxError", "Unexpected token")
    ELSE IF body = JsonNull THEN Resolved(JsonNull)
    ELSE Resolved(body.value)

\* await fetch(url): rejects with a TypeError when the transport fails.
TransportError == Rejected("TypeError", "Failed to fetch")

(***************************************************************************)
(* What the local API can answer.  A response is a transport failure, or   *)
(* a status (ok or not) with a body.                                       *)
(***************************************************************************)
TransportFailure == [transport |-> "fail", ok |-> FALSE, body |-> MalformedBody]
HttpResponse(ok, body) == [transport |-> "ok", ok |-> ok, body |-> body]

\* The body of a non-2xx answer: a JSON error message.
ErrorBody == JsonBody([tag |-> "message", text |-> "Internal Server Error"])

Post(id) == [userId |-> 1, id |-> id, title |-> "title", body |-> "body"]
PostsA == [tag |-> "posts", items |-> <<Post(1)>>]
PostsB == [tag |-> "posts", items |-> <<Post(1), Post(2)>>]

UserRecord(userId, stamp) ==
    [tag |-> "user", id |-> userId, name |-> "name", email |-> "email",
     fetchedAt |-> stamp]

AllStamps == IsoStamps \cup TimeStamps \cup TextStamps \cup {MissingStamp}

\* Every response the isolated fetchUser call is tried on.
UserBodies ==
    {MalformedBody, JsonNull, ErrorBody}
        \cup {JsonBody(UserRecord(u, st)) : u \in UserIds, st \in AllStamps}
FetchUserInputs ==
    {TransportFailure}
        \cup {HttpResponse(ok, b) : ok \in BOOLEAN, b \in UserBodies}

\* The responses the server gives the coordinated fetches.
PostsResponses ==
    {TransportFailure,
     HttpResponse(FALSE, ErrorBody),
     HttpResponse(TRUE, MalformedBody),
     HttpResponse(TRUE, JsonBody(PostsA)),
     HttpResponse(TRUE, JsonBody(PostsB))}
UserResponses(userId) ==
    {HttpResponse(FALSE, ErrorBody),
     HttpResponse(TRUE, JsonBody(UserRecord(userId, [tag |-> "iso", h |-> 17, m |-> 5]))),
     HttpResponse(TRUE, JsonBody(UserRecord(userId, [tag |-> "text", s |-> "not-a-date"])))}

(***************************************************************************)
(* The fetchers.                                                           *)
(***************************************************************************)
\* fetchPosts without its response.ok check.
fetchPostsNoStatusCheck(response) ==
    IF response.transport = "fail" THEN TransportError
    ELSE ResponseJson(response.body)

\* fetchPosts with its response.ok check inverted.
fetchPostsInvertedCheck(response) ==
    IF response.transport = "fail" THEN TransportError
    ELSE IF response.ok THEN Rejected("Error", "Failed to fetch data")
    ELSE ResponseJson(response.body)

\* fetchPosts that parses the body and forgets to return it.
fetchPostsNoReturn(response) ==
    IF response.transport = "fail" THEN TransportError
    ELSE IF ~response.ok THEN Rejected("Error", "Failed to fetch data")
    ELSE IF ResponseJson(response.body).settled = "rejected"
         THEN ResponseJson(response.body)
    ELSE Resolved(None)

fetchPosts(response) ==
    IF response.transport = "fail" THEN TransportError
    ELSE IF ~response.ok THEN Rejected("Error", "Failed to fetch data")
    ELSE ResponseJson(response.body)

\* data.fetchedAt: undefined when the object has no such property.
ReadFetchedAt(data) ==
    IF "fetchedAt" \in DOMAIN data THEN data.fetchedAt ELSE MissingStamp

\* fetchUser that throws on a timestamp that is not a date.
fetchUserStrict(userId, response) ==
    IF response.transport = "fail" THEN TransportError
    ELSE IF ~response.ok THEN Rejected("Error", "Failed to fetch user")
    ELSE LET parsed == ResponseJson(response.body) IN
         IF parsed.settled = "rejected" THEN parsed
         ELSE IF parsed.value = JsonNull
              THEN Rejected("TypeError", "Cannot read properties of null")
         ELSE LET data == parsed.value IN
              IF ~Truthy(ReadFetchedAt(data)) THEN Resolved(data)
              ELSE IF IsValidDate(ReadFetchedAt(data))
                   THEN Resolved([data EXCEPT !.fetchedAt = ToLocaleTimeString(@)])
              ELSE Rejected("RangeError", "Invalid time value")

fetchUser(userId, response) ==
    IF response.transport = "fail" THEN TransportError
    ELSE IF ~response.ok THEN Rejected("Error", "Failed to fetch user")
    ELSE LET parsed == ResponseJson(response.body) IN
         IF parsed.settled = "rejected" THEN parsed
         ELSE IF parsed.value = JsonNull
              THEN Rejected("TypeError", "Cannot read properties of null")
         ELSE LET data == parsed.value IN
              IF Truthy(ReadFetchedAt(data)) /\ IsValidDate(ReadFetchedAt(data))
              THEN Resolved([data EXCEPT !.fetchedAt = ToLocaleTimeString(@)])
              ELSE Resolved(data)

\* RemoteDataSource.fetch(key): the queryFn bound to the key.
RemoteFetch(key, response) ==
    IF key = PostsKey THEN fetchPosts(response)
    ELSE fetchUser(key[2], response)

ResponsesFor(key) ==
    IF key = PostsKey THEN PostsResponses ELSE UserResponses(key[2])

(***************************************************************************)
(* CacheStore.                                                             *)
(***************************************************************************)
Entry(status, data, error) == [status |-> status, data |-> data, error |-> error]
IdleEntry == Entry("Idle", None, None)

\* get(key): the entry, or None when the key has none.
Get(store, key) == IF key \in DOMAIN store THEN store[key] ELSE None

\* put(key, entry): replaces or inserts the entry, wholesale.
Put(store, key, entry) ==
    [x \in DOMAIN store \cup {key} |-> IF x = key THEN entry ELSE store[x]]

\* The entry a caller is shown: an Idle entry when the key has none.
EntryOrIdle(store, key) == IF key \in DOMAIN store THEN store[key] ELSE IdleEntry

(***************************************************************************)
(* InFlightRegistry: one handle per key, holding the attached callers.     *)
(***************************************************************************)
Handle(callers) == [callers |-> callers]
Register(registry, key, handle) ==
    [x \in DOMAIN registry \cup {key} |-> IF x = key THEN handle ELSE registry[x]]
Remove(registry, key) == [x \in DOMAIN registry \ {key} |-> registry[x]]

Waiting == UNION {inflight[k].callers : k \in DOMAIN inflight}

\* Callers carry no state of their own besides the handle they wait on, so
\* a new request is always made by the free caller of lowest number.
IsNextCaller(c) == c \notin Waiting /\ \A d \in Callers \ Waiting : c <= d

(***************************************************************************)
(* QueryCoordinator.request(key, {enabled, forceRefetch}).                 *)
(***************************************************************************)
\* A cache hit: the key holds a successfully fetched entry.
CacheHit(key) == key \in DOMAIN cache /\ cache[key].status = "Success"

\* A request step in which forceRefetch also bypasses the in-flight handle.
RequestStepForcedBypass(key, enabled, forceRefetch) ==
    IF ~enabled /\ ~forceRefetch THEN "disabled"
    ELSE IF key \in DOMAIN inflight /\ ~forceRefetch THEN "attach"
    ELSE IF ~forceRefetch /\ CacheHit(key) THEN "hit"
    ELSE "start"

\* A request step that never looks at the in-flight registry.
RequestStepNoDedupe(key, enabled, forceRefetch) ==
    IF ~enabled /\ ~forceRefetch THEN "disabled"
    ELSE IF ~forceRefetch /\ CacheHit(key) THEN "hit"
    ELSE "start"

\* Which step of the algorithm the request takes.
RequestStep(key, enabled, forceRefetch) ==
    IF ~enabled /\ ~forceRefetch THEN "disabled"
    ELSE IF key \in DOMAIN inflight THEN "attach"
    ELSE IF ~forceRefetch /\ CacheHit(key) THEN "hit"
    ELSE "start"

\* Step 3: the entry while the fetch is in flight keeps the data it had.
FetchingEntry(entry) == [entry EXCEPT !.status = "Fetching"]

\* Step 4: the entry after a successful fetch.
SuccessEntry(entry, value) == Entry("Success", value, None)

\* Step 5: the entry after a failed fetch keeps the data it had.
ErrorEntry(entry, error) == Entry("Error", entry.data, error)

NoResponse == [transport |-> "none", ok |-> FALSE, body |-> MalformedBody]

\* Step 6: every caller in callers is handed the same entry.
Notify(callers, entry) == [c \in callers |-> entry]

\* The record of an operation: what was asked, the step taken, the entry
\* the key held before, the server's response and who was handed what.
Op(name, key, button, enabled, forceRefetch, step, before, response, to) ==
    [op |-> name, key |-> key, button |-> button, enabled |-> enabled,
     forceRefetch |-> forceRefetch, step |-> step, before |-> before,
     response |-> response, to |-> to]

RequestAs(name, button, c, key, enabled, forceRefetch) ==
    LET step == RequestStep(key, enabled, forceRefetch) IN
    /\ IsNextCaller(c)
    /\ \/ /\ step \in {"disabled", "hit"}
          /\ UNCHANGED <<cache, inflight, outstanding, fetches>>
          /\ lastOp' = Op(name, key, button, enabled, forceRefetch, step,
                          EntryOrIdle(cache, key), NoResponse,
                          Notify({c}, EntryOrIdle(cache, key)))
       \/ /\ step = "attach"
          /\ inflight' = [inflight EXCEPT ![key] =
                              Handle(inflight[key].callers \cup {c})]
          /\ UNCHANGED <<cache, outstanding, fetches>>
          /\ lastOp' = Op(name, key, button, enabled, forceRefetch, step,
                          EntryOrIdle(cache, key), NoResponse,
                          Notify({}, IdleEntry))
       \/ /\ step = "start"
          /\ fetches < MaxFetches
          /\ cache' = Put(cache, key, FetchingEntry(EntryOrIdle(cache, key)))
          /\ inflight' = Register(inflight, key, Handle({c}))
          /\ outstanding' = [outstanding EXCEPT ![key] = @ + 1]
          /\ fetches' = fetches + 1
          /\ lastOp' = Op(name, key, button, enabled, forceRefetch, step,
                          EntryOrIdle(cache, key), NoResponse,
                          Notify({}, IdleEntry))
    /\ UNCHANGED fu

Request(c, key, enabled, forceRefetch) ==
    RequestAs("request", 0, c, key, enabled, forceRefetch)

\* Steps 4 to 6: the fetch of key settles with the server's response.
Settle(key, response) ==
    /\ key \in DOMAIN inflight
    /\ LET outcome == RemoteFetch(key, response)
           entry == IF outcome.settled = "resolved"
                    THEN SuccessEntry(cache[key], outcome.value)
                    ELSE ErrorEntry(cache[key], outcome.error)
       IN /\ cache' = Put(cache, key, entry)
          /\ inflight' = Remove(inflight, key)
          /\ outstanding' = [outstanding EXCEPT ![key] = @ - 1]
          /\ lastOp' = Op("settle", key, 0, TRUE, FALSE, "settle",
                          cache[key], response,
                          Notify(inflight[key].callers, entry))
    /\ UNCHANGED <<fetches, fu>>

(***************************************************************************)
(* Presentation adapter: what useQuery hands the display layer.            *)
(***************************************************************************)
isFetching(key) == EntryOrIdle(cache, key).status = "Fetching"

\* isLoading: the query is fetching for the first time.
isLoading(key) ==
    LET e == EntryOrIdle(cache, key) IN
    isFetching(key) /\ e.data = None /\ e.error = None

Adapter(key) ==
    LET e == EntryOrIdle(cache, key) IN
    [data |-> e.data, isFetching |-> isFetching(key), error |-> e.error]

(***************************************************************************)
(* The components.                                                         *)
(***************************************************************************)
\* The posts query left enabled.
PostsQueryEnabled == [queryKey |-> PostsKey, enabled |-> TRUE]

\* FetchDataReactQuery: the options of its useQuery call.
PostsQuery == [queryKey |-> PostsKey, enabled |-> FALSE]

\* FetchDataReactQuery renders: useQuery observes the posts query.
MountPosts(c) ==
    RequestAs("mount", 0, c, PostsQuery.queryKey, PostsQuery.enabled, FALSE)

\* A Fetch button whose onClick does not call refetch().
ClickFetchNoRefetch(c) ==
    /\ ~isLoading(PostsQuery.queryKey)
    /\ RequestAs("click", 0, c, PostsQuery.queryKey, PostsQuery.enabled, FALSE)

\* The Fetch button: disabled while isLoading, onClick calls refetch().
ClickFetch(c) ==
    /\ ~isLoading(PostsQuery.queryKey)
    /\ RequestAs("click", 0, c, PostsQuery.queryKey, PostsQuery.enabled, TRUE)

\* UserSelector: the buttons it renders and what a click passes on.
UserSelectorButtons == {1, 2, 3}
onSelectUserFirst(userId) == 1
onSelectUser(userId) == userId

\* A click on "User n": the selected user's query is requested.
SelectUser(c, button) ==
    RequestAs("select", button, c, UserKey(onSelectUser(button)), TRUE, FALSE)

\* CacheStatus with its two branches swapped.
CacheStatusInverted(fetching) ==
    IF fetching THEN "Served from cache (no network request)"
    ELSE "Fetching fresh data from server..."

\* CacheStatus: the line it shows.
CacheStatus(fetching) ==
    IF fetching THEN "Fetching fresh data from server..."
    ELSE "Served from cache (no network request)"

\* UserCard: hands its isFetching prop to CacheStatus.
UserCard(user, fetching) == [info |-> user, status |-> CacheStatus(fetching)]

(***************************************************************************)
(* The isolated fetchUser call.                                            *)
(***************************************************************************)
FetchUserCall ==
    /\ fu.phase = "input"
    /\ fu' = [fu EXCEPT !.phase = "done",
                        !.result = fetchUser(fu.userId, fu.response)]
    /\ UNCHANGED <<cache, inflight, outstanding, fetches, lastOp>>

(***************************************************************************)
(* Specifications.                                                         *)
(***************************************************************************)
EmptyMap == [x \in {} |-> None]
InitOp ==
    Op("init", PostsKey, 0, FALSE, FALSE, "init", IdleEntry, NoResponse,
       Notify({}, IdleEntry))
NoCall == [phase |-> "idle", userId |-> 1, response |-> NoResponse,
           result |-> Rejected("none", "none")]

InitStore ==
    /\ cache = EmptyMap
    /\ inflight = EmptyMap
    /\ outstanding = [k \in Keys |-> 0]
    /\ fetches = 0
    /\ lastOp = InitOp

Init == InitStore /\ fu = NoCall

Next ==
    \/ \E c \in Callers, k \in Keys, e \in BOOLEAN, f \in BOOLEAN :
           Request(c, k, e, f)
    \/ \E c \in Callers : MountPosts(c)
    \/ \E c \in Callers : ClickFetch(c)
    \/ \E c \in Callers, b \in UserSelectorButtons : SelectUser(c, b)
    \/ \E k \in Keys : \E r \in ResponsesFor(k) : Settle(k, r)

Spec == Init /\ [][Next]_vars

InitFetchUser ==
    /\ InitStore
    /\ \E u \in UserIds, r \in FetchUserInputs :
           fu = [phase |-> "input", userId |-> u, response |-> r,
                 result |-> Rejected("none", "none")]

NextFetchUser == FetchUserCall

SpecFetchUser == InitFetchUser /\ [][NextFetchUser]_vars

(***************************************************************************)
(* Properties.                                                             *)
(***************************************************************************)
IsRequestOp(o) == o.op \in {"request", "mount", "click", "select"}
Settled(o) == o.op = "settle"
ServedFromCache == "Served from cache (no network request)"

\* The server's answer makes the fetch fail: no answer, a non-2xx status,
\* or a body that is not JSON.
Fails(response) ==
    \/ response.transport = "fail"
    \/ ~response.ok
    \/ response.body = MalformedBody

\* C1: for every key at most one network fetch is outstanding at any time,
\* also after a forced refetch was requested while a fetch was in flight.
C1_AtMostOneFetchPerKey == \A k \in Keys : outstanding[k] <= 1

\* The Fetch button's refetch() was called while the posts fetch was in flight.
C1_Witness ==
    /\ lastOp.op = "click"
    /\ lastOp.forceRefetch
    /\ lastOp.before.status = "Fetching"
    /\ outstanding[PostsKey] = 1

\* C2: a request without forceRefetch made while a fetch of its key is in
\* flight starts no fetch and is not answered yet; exactly one fetch is
\* outstanding for the handle; when the fetch settles, every attached
\* caller is handed the settled entry of the store, the same for all.
C2_ConcurrentRequestsShareOneFetch ==
    [][/\ \A k \in DOMAIN inflight' : outstanding'[k] = 1
       /\ (/\ IsRequestOp(lastOp')
           /\ lastOp'.enabled
           /\ ~lastOp'.forceRefetch
           /\ lastOp'.key \in DOMAIN inflight)
          => /\ fetches' = fetches
             /\ outstanding' = outstanding
             /\ DOMAIN lastOp'.to = {}
             /\ inflight[lastOp'.key].callers \subseteq inflight'[lastOp'.key].callers
             /\ Cardinality(inflight'[lastOp'.key].callers)
                    = Cardinality(inflight[lastOp'.key].callers) + 1
       /\ Settled(lastOp')
          => /\ DOMAIN lastOp'.to = inflight[lastOp'.key].callers
             /\ cache'[lastOp'.key].status \in {"Success", "Error"}
             /\ \A c \in DOMAIN lastOp'.to : lastOp'.to[c] = cache'[lastOp'.key]
      ]_vars

\* The first fetch of a key settled with three callers attached to it.
C2_Witness ==
    /\ Settled(lastOp)
    /\ lastOp.before = FetchingEntry(IdleEntry)
    /\ Cardinality(DOMAIN lastOp.to) >= 3
    /\ fetches = 1

\* C3: a request with enabled=false and forceRefetch=false is answered at
\* once with the key's current entry (an Idle entry when it has none) and
\* leaves the store, the registry and the fetch counts unchanged; the posts
\* component's own query (enabled: false) starts no fetch when it renders.
C3_DisabledRequestIsNoOp ==
    [][/\ (IsRequestOp(lastOp') /\ ~lastOp'.enabled /\ ~lastOp'.forceRefetch)
          => /\ UNCHANGED <<cache, inflight, outstanding, fetches>>
             /\ \E c \in Callers :
                    lastOp'.to = Notify({c}, EntryOrIdle(cache, lastOp'.key))
       /\ lastOp'.op = "mount"
          => /\ lastOp'.key = PostsKey
             /\ UNCHANGED <<cache, inflight, outstanding, fetches>>
      ]_vars

\* The posts component rendered while the store held fetched posts.
C3_Witness ==
    /\ lastOp.op = "mount"
    /\ ~lastOp.enabled
    /\ \E c \in DOMAIN lastOp.to : lastOp.to[c].status = "Success"
    /\ cache[PostsKey].status = "Success"

\* C4: starting a fetch leaves the key's data as it was, and a fetch that
\* fails leaves an entry with status Error, the failure as its error and
\* the data the key held before (absent when it held none).
C4_FailureKeepsData ==
    [][/\ \A k \in DOMAIN cache :
              cache'[k].status = "Fetching" => cache'[k].data = cache[k].data
       /\ (Settled(lastOp') /\ Fails(lastOp'.response))
          => /\ cache'[lastOp'.key].status = "Error"
             /\ cache'[lastOp'.key].error # None
             /\ cache'[lastOp'.key].error.tag = "error"
             /\ cache'[lastOp'.key].data = cache[lastOp'.key].data
             /\ cache'[lastOp'.key].data = lastOp'.before.data
      ]_vars

\* A refetch of the posts failed with a non-2xx answer after an earlier
\* fetch had succeeded, and the earlier posts are still there.
C4_Witness ==
    /\ Settled(lastOp)
    /\ lastOp.key = PostsKey
    /\ ~lastOp.response.ok
    /\ lastOp.response.transport = "ok"
    /\ cache[PostsKey] =
           Entry("Error", PostsA, Rejected("Error", "Failed to fetch data").error)

\* C5: right after a fetch settles successfully with payload p the key's
\* entry is Success with data p and no error, whatever it held before; for
\* the posts, p is the parsed body of the 2xx answer.
C5_SuccessStoresPayload ==
    [][Settled(lastOp') =>
         LET k == lastOp'.key
             outcome == RemoteFetch(k, lastOp'.response)
         IN /\ outcome.settled = "resolved"
               => Get(cache', k) = Entry("Success", outcome.value, None)
            /\ (k = PostsKey /\ ~Fails(lastOp'.response))
               => Get(cache', k) =
                      Entry("Success", lastOp'.response.body.value, None)
      ]_vars

\* The posts were fetched successfully after an earlier fetch had failed.
C5_Witness ==
    /\ Settled(lastOp)
    /\ lastOp.key = PostsKey
    /\ lastOp.before.error # None
    /\ lastOp.before.data = None
    /\ cache[PostsKey] = Entry("Success", PostsB, None)

\* C6: for every key isFetching is true exactly when the entry's status is
\* Fetching, which is exactly when a fetch of the key is outstanding; so
\* the card shows "Served from cache" only when no fetch is outstanding.
C6_IsFetchingIffFetching ==
    \A k \in Keys :
        LET a == Adapter(k) IN
        /\ a.isFetching <=> (k \in DOMAIN cache /\ cache[k].status = "Fetching")
        /\ a.isFetching <=> outstanding[k] > 0
        /\ UserCard(a.data, a.isFetching).status = ServedFromCache
           => outstanding[k] = 0 /\ k \notin DOMAIN inflight

\* One user is shown from the cache while another user is being fetched.
C6_Witness ==
    \E k1 \in Keys, k2 \in Keys :
        /\ k1 # PostsKey /\ k2 # PostsKey
        /\ Get(cache, k1) # None /\ cache[k1].status = "Success"
        /\ UserCard(cache[k1].data, isFetching(k1)).status = ServedFromCache
        /\ outstanding[k2] = 1
        /\ UserCard(Adapter(k2).data, isFetching(k2)).status # ServedFromCache

\* C7: a key has a handle exactly while a fetch of it is outstanding: the
\* handle is there after a fetch starts and gone after it settles; a
\* forceRefetch request for a key without a handle starts one new fetch,
\* and so does a click on the Fetch button, also when the key has settled.
C7_SettledFetchDoesNotDedupe ==
    [][/\ \A k \in Keys : (k \in DOMAIN inflight') <=> (outstanding'[k] = 1)
       /\ Settled(lastOp')
          => lastOp'.key \in DOMAIN inflight /\ lastOp'.key \notin DOMAIN inflight'
       /\ (/\ IsRequestOp(lastOp')
           /\ \/ lastOp'.forceRefetch
              \/ lastOp'.op = "click"
           /\ lastOp'.key \notin DOMAIN inflight)
          => /\ fetches' = fetches + 1
             /\ lastOp'.key \in DOMAIN inflight'
             /\ outstanding'[lastOp'.key] = outstanding[lastOp'.key] + 1
      ]_vars

\* The Fetch button was clicked after the first posts fetch had settled and
\* a second fetch is now in flight.
C7_Witness ==
    /\ lastOp.op = "click"
    /\ lastOp.before.status \in {"Success", "Error"}
    /\ fetches = 2
    /\ DOMAIN cache = {PostsKey}
    /\ PostsKey \in DOMAIN inflight

\* C8: every entry with status Success has data and no error, every entry
\* with status Error has an error, and no step removes an entry or replaces
\* data that is present by absent data.
C8_EntryInvariant ==
    [][/\ \A k \in DOMAIN cache' :
              /\ cache'[k].status = "Success"
                 => cache'[k].data # None /\ cache'[k].error = None
              /\ cache'[k].status = "Error" => cache'[k].error # None
       /\ \A k \in DOMAIN cache :
              /\ k \in DOMAIN cache'
              /\ cache[k].data # None => cache'[k].data # None
      ]_vars

\* A key holds stale data next to an error.
C8_Witness ==
    \E k \in DOMAIN cache :
        /\ cache[k].status = "Error"
        /\ cache[k].data # None
        /\ cache[k].error # None

\* C9: a step on one key leaves the entry, the handle and the outstanding
\* fetches of every other key unchanged, and a click on "User n" touches
\* the key ("user", n) only.
C9_KeysAreIndependent ==
    [][/\ \A k \in Keys \ {lastOp'.key} :
              /\ Get(cache', k) = Get(cache, k)
              /\ Get(inflight', k) = Get(inflight, k)
              /\ outstanding'[k] = outstanding[k]
       /\ lastOp'.op = "select"
          => \A k \in Keys \ {UserKey(lastOp'.button)} :
                 /\ Get(cache', k) = Get(cache, k)
                 /\ Get(inflight', k) = Get(inflight, k)
                 /\ outstanding'[k] = outstanding[k]
      ]_vars

\* User 2 was selected while the posts were being fetched: the two keys
\* are in flight at the same time.
C9_Witness ==
    /\ lastOp.op = "select"
    /\ lastOp.button = 2
    /\ lastOp.step = "start"
    /\ {PostsKey, UserKey(2)} \subseteq DOMAIN inflight
    /\ UserKey(1) \notin DOMAIN cache

\* The response carries a JSON object whose fetchedAt is not a valid date.
InvalidStampResponse(response) ==
    /\ response.transport = "ok"
    /\ response.ok
    /\ response.body.tag = "json"
    /\ ~IsValidDate(ReadFetchedAt(response.body.value))

\* C10 as stated: a 2xx answer with an invalid timestamp is returned
\* unmodified, and only a non-2xx answer makes fetchUser fail.
C10_OnlyNon2xxFails ==
    fu.phase = "done" =>
        /\ InvalidStampResponse(fu.response)
           => fu.result = Resolved(fu.response.body.value)
        /\ fu.result.settled = "rejected"
           => fu.response.transport = "ok" /\ ~fu.response.ok

\* C10 amended: a 2xx answer with an invalid timestamp is returned
\* unmodified; fetchUser fails exactly when the transport fails, the
\* answer is non-2xx, or the 2xx body is not JSON or is JSON null.
C10_InvalidTimestampIsNotFatal ==
    fu.phase = "done" =>
        /\ InvalidStampResponse(fu.response)
           => fu.result = Resolved(fu.response.body.value)
        /\ fu.result.settled = "rejected"
           <=> \/ Fails(fu.response)
               \/ fu.response.body = JsonNull

\* fetchUser returned a record whose fetchedAt is not a date, as received.
C10_Witness ==
    /\ fu.phase = "done"
    /\ fu.response.ok
    /\ fu.response.body.tag = "json"
    /\ ReadFetchedAt(fu.response.body.value) = [tag |-> "text", s |-> "not-a-date"]
    /\ fu.result.settled = "resolved"
    /\ fu.result.value.fetchedAt = [tag |-> "text", s |-> "not-a-date"]

====
